---- MODULE Spec2Model ----
(***************************************************************************)
(* URDF -> armature converter of morse/builder/urdf.py.                    *)
(*                                                                         *)
(* One Python process imports URDF documents one after the other.  Each    *)
(* import is URDF.__init__: register the global materials, build the       *)
(* URDFJoint tree (_walk_urdf), then URDF.build: pass 1 (build_editmode,   *)
(* one bone per joint), the base link's visual, pass 2 (build_objectmode,  *)
(* pose locks, joint configuration, visuals and their materials).          *)
(*                                                                         *)
(* Python None is the empty tuple; an optional object is a tuple of length *)
(* 0 or 1; an absent string (a material without name or texture) is "".   *)
(* Link and joint names are numbers.  Positions of bones and objects       *)
(* (head, tail, matrix_local, location, scale, dimensions) are not part of *)
(* the state: nothing below reads them.                                    *)
(***************************************************************************)
EXTENDS Integers, Sequences, FiniteSets, TLC

VARIABLES
    pc,          \* position of the session: idle, build, edit, object, done, raised
    imports,     \* number of URDF(...) constructions begun in this process
    MATERIALS,   \* urdf.py:18, the process-wide registry: name -> [color, texture]
    materials,   \* the host's material store (bpy.data.materials), in creation order
    urdf,        \* self.urdf, the parsed document of the running import
    base_link,   \* self.base_link
    nodes,       \* the URDFJoint objects of the running import, in construction order
    roots,       \* self.roots
    mode,        \* the host's editing mode
    edit_bones,  \* armature.data.edit_bones, in creation order
    pose_bones,  \* armature.pose.bones: bone name -> pose channels
    objects,     \* the scene objects created by the running import, in creation order
    editStack,   \* pending build_editmode calls <<self, parent>>, next call first
    poseStack,   \* pending build_objectmode calls <<self, parent>>, next call first
    error        \* the exception that ended the import, "" when none

vars == <<pc, imports, MATERIALS, materials, urdf, base_link, nodes, roots, mode,
          edit_bones, pose_bones, objects, editStack, poseStack, error>>

\* ------------------------------------------------------------------ bounds

MaxLinks == 3
MaxImports == 2

\* ------------------------------------------------------------ Python values

None == <<>>
Some(x) == <<x>>

FIXED == "fixed"
PRISMATIC == "prismatic"
REVOLUTE == "revolute"
TYPES == {FIXED, PRISMATIC, REVOLUTE}

\* ------------------------------------------------------------------ URDFLink

\* Euler(rpy, 'XYZ').to_quaternion() for angles that are multiples of pi, given
\* in units of pi: the half angle is 0 or pi/2, so cos and sin are 0 or 1.
HalfCos(a) == IF a % 2 = 0 THEN 1 ELSE 0
HalfSin(a) == IF a % 2 = 0 THEN 0 ELSE 1
to_quaternion(rpy) ==
    LET cr == HalfCos(rpy[1])
        sr == HalfSin(rpy[1])
        cp == HalfCos(rpy[2])
        sp == HalfSin(rpy[2])
        cy == HalfCos(rpy[3])
        sy == HalfSin(rpy[3])
    IN  << cr * cp * cy + sr * sp * sy,
           sr * cp * cy - cr * sp * sy,
           cr * sp * cy + sr * cp * sy,
           cr * cp * sy - sr * sp * cy >>

\* A faulty variant of _get_origin: collision is looked at before inertial.
get_origin_collision_first(inertial, collision, visual) ==
    LET o == IF collision # None /\ collision[1].origin # None THEN collision[1].origin[1]
             ELSE IF inertial # None /\ inertial[1].origin # None THEN inertial[1].origin[1]
             ELSE IF visual # None /\ visual[1].origin # None THEN visual[1].origin[1]
             ELSE [xyz |-> <<0, 0, 0>>, rpy |-> <<0, 0, 0>>]
    IN  [xyz |-> o.xyz, rot |-> to_quaternion(o.rpy)]

_get_origin(inertial, collision, visual) ==
    LET o == IF inertial # None /\ inertial[1].origin # None THEN inertial[1].origin[1]
             ELSE IF collision # None /\ collision[1].origin # None THEN collision[1].origin[1]
             ELSE IF visual # None /\ visual[1].origin # None THEN visual[1].origin[1]
             ELSE [xyz |-> <<0, 0, 0>>, rpy |-> <<0, 0, 0>>]
    IN  [xyz |-> o.xyz, rot |-> to_quaternion(o.rpy)]

URDFLink(urdf_link) ==
    LET o == _get_origin(urdf_link.inertial, urdf_link.collision, urdf_link.visual)
    IN  [name |-> urdf_link.name,
         inertial |-> urdf_link.inertial,
         visual |-> urdf_link.visual,
         collision |-> urdf_link.collision,
         xyz |-> o.xyz,
         rot |-> o.rot]

\* ----------------------------------------------------------------- the tree

URDFJoint(urdf_joint, urdf_link) ==
    [name |-> urdf_joint.name,
     type |-> urdf_joint.type,
     link |-> URDFLink(urdf_link),
     axis |-> urdf_joint.axis,
     limit |-> urdf_joint.limit,
     children |-> <<>>,
     editbone |-> 0,
     posebone |-> 0]

\* A faulty variant of add_child: the child is built but never appended to children.
add_child_not_appended(heap, self, urdf_joint, urdf_link) ==
    Append(heap, URDFJoint(urdf_joint, urdf_link))

\* self.add_child(joint, link) on the objects in heap; the child is the last one.
add_child(heap, self, urdf_joint, urdf_link) ==
    LET child == Len(heap) + 1
    IN  [Append(heap, URDFJoint(urdf_joint, urdf_link)) EXCEPT
            ![self].children = Append(@, child)]

link_map(doc, name) == doc.links[name]

\* urdf.get_root() of the parser: the link that is no joint's child.
get_root(doc) ==
    CHOOSE l \in 1..Len(doc.links) : \A i \in 1..Len(doc.joints) : doc.joints[i].child # l

\* A faulty variant of _get_urdf_connections: only the first joint of a link is found.
get_urdf_connections_first_only(doc, link) ==
    LET all == SelectSeq(doc.joints, LAMBDA joint : joint.parent = link.name)
    IN  IF all = <<>> THEN <<>> ELSE <<Head(all)>>

_get_urdf_connections(doc, link) ==
    SelectSeq(doc.joints, LAMBDA joint : joint.parent = link.name)

RECURSIVE _walk_urdf(_, _, _, _)
RECURSIVE walk_connections(_, _, _, _, _)

\* The for loop of _walk_urdf over the remaining connections conns.
walk_connections(doc, conns, parent_bone, heap, bones) ==
    IF conns = <<>> THEN [heap |-> heap, bones |-> bones]
    ELSE LET joint == Head(conns)
             child_link == link_map(doc, joint.child)
             heap1 == IF parent_bone # 0
                      THEN add_child(heap, parent_bone, joint, child_link)
                      ELSE Append(heap, URDFJoint(joint, child_link))
             bone == Len(heap1)
             sub == _walk_urdf(doc, child_link, bone, heap1)
         IN  walk_connections(doc, Tail(conns), parent_bone, sub.heap, Append(bones, bone))

_walk_urdf(doc, link, parent_bone, heap) ==
    walk_connections(doc, _get_urdf_connections(doc, link), parent_bone, heap, <<>>)

\* ------------------------------------------------------ the MATERIALS registry

\* A faulty variant of add_material: a later declaration overwrites the entry.
add_material_overwrite(REG, urdf_material) ==
    [n \in DOMAIN REG \cup {urdf_material.name} |->
        IF n = urdf_material.name
        THEN [color |-> urdf_material.color, texture |-> urdf_material.texture]
        ELSE REG[n]]

\* add_material(urdf_material) on the registry REG.
add_material(REG, urdf_material) ==
    IF urdf_material.name \in DOMAIN REG THEN REG
    ELSE REG @@ (urdf_material.name :>
                    [color |-> urdf_material.color, texture |-> urdf_material.texture])

RECURSIVE add_materials(_, _)
\* for mat in self.urdf.materials: add_material(mat)
add_materials(REG, mats) ==
    IF mats = <<>> THEN REG ELSE add_materials(add_material(REG, Head(mats)), Tail(mats))

\* ------------------------------------------------------------ scene objects

\* Colours are rgba tuples in tenths; a new host material is grey.
DefaultDiffuse == <<8, 8, 8>>

\* create_objects_by_link(armature, link): the objects it adds to the scene.
\* A mesh file is taken to hold one mesh object.
create_objects_by_link(link) ==
    IF link.visual # None /\ link.visual[1].geometry # ""
    THEN << [name |-> link.name, type |-> "MESH", materials |-> <<>>,
             parent_type |-> "OBJECT", parent_bone |-> 0] >>
    ELSE << [name |-> link.name, type |-> "EMPTY", materials |-> <<>>,
             parent_type |-> "OBJECT", parent_bone |-> 0] >>

\* bpymorse.get_material(name) on the host store mats: the handle (the index) of
\* the material of that name, 0 (None) when there is none.
get_material(mats, name) ==
    LET found == {i \in 1..Len(mats) : mats[i].name = name}
    IN  IF found = {} THEN 0 ELSE CHOOSE i \in found : \A j \in found : i <= j

\* A faulty variant of resolve_material: a material is created without looking one up.
resolve_material_always_new(mats, name) ==
    [materials |-> Append(mats, [name |-> name, diffuse_color |-> DefaultDiffuse]),
     mat |-> Len(mats) + 1]

\* mat = bpymorse.get_material(name); if not mat: mat = get_materials().new(name)
\* on the host store mats: the store afterwards and the handle.
resolve_material(mats, name) ==
    LET mat == get_material(mats, name)
    IN  IF mat # 0
        THEN [materials |-> mats, mat |-> mat]
        ELSE [materials |-> Append(mats, [name |-> name, diffuse_color |-> DefaultDiffuse]),
              mat |-> Len(mats) + 1]

\* URDFJoint.add_material(obj) for the joint whose link is self_link: the object
\* and the host store afterwards, and the exception that escapes ("" when none).
URDFJoint_add_material(self_link, obj, mats, REG) ==
    IF self_link.visual = None \/ self_link.visual[1].material = None
    THEN [obj |-> obj, materials |-> mats, error |-> ""]
    ELSE LET material == self_link.visual[1].material[1]
             local == material.color # None \/ material.texture # ""
         IN  IF material.name = ""
             \* line 271 formats self.link.material, and URDFLink has no such attribute
             THEN [obj |-> obj, materials |-> mats, error |-> "AttributeError"]
             ELSE IF ~local /\ material.name \notin DOMAIN REG
             THEN [obj |-> obj, materials |-> mats, error |-> ""]
             ELSE LET rgba == IF local THEN material.color ELSE REG[material.name].color
                      r == resolve_material(mats, material.name)
                  IN  IF obj.type # "MESH"
                      \* obj.data has no materials: AttributeError, caught at line 302
                      THEN [obj |-> obj, materials |-> r.materials, error |-> ""]
                      ELSE IF rgba = None
                      \* rgba[0] on None: TypeError, not caught
                      THEN [obj |-> [obj EXCEPT !.materials = Append(@, r.mat)],
                            materials |-> r.materials, error |-> "TypeError"]
                      ELSE [obj |-> [obj EXCEPT !.materials = Append(@, r.mat)],
                            materials |-> [r.materials EXCEPT
                                              ![r.mat].diffuse_color = SubSeq(rgba, 1, 3)],
                            error |-> ""]

RECURSIVE link_frame_loop(_, _, _, _, _, _)
\* for v in visuals of add_link_frame, from object number v of objs on.
link_frame_loop(self_link, bone_name, objs, v, mats, REG) ==
    IF v > Len(objs) THEN [objects |-> objs, materials |-> mats, error |-> ""]
    ELSE LET r == URDFJoint_add_material(self_link, objs[v], mats, REG)
         IN  IF r.error # ""
             THEN [objects |-> [objs EXCEPT ![v] = r.obj],
                   materials |-> r.materials, error |-> r.error]
             ELSE link_frame_loop(self_link, bone_name,
                      [objs EXCEPT ![v] = [r.obj EXCEPT !.parent_type = "BONE",
                                                        !.parent_bone = bone_name]],
                      v + 1, r.materials, REG)

\* add_link_frame for the link self_link, attached to the bone bone_name.
add_link_frame(self_link, bone_name, objs, mats, REG) ==
    IF self_link.visual = None
    THEN [objects |-> objs, materials |-> mats, error |-> ""]
    ELSE link_frame_loop(self_link, bone_name, objs \o create_objects_by_link(self_link),
                         Len(objs) + 1, mats, REG)

\* ------------------------------------------------------------------- pass 1

\* A faulty variant of new_editbone: the bone is never given its parent.
new_editbone_unparented(heap, self, parent) ==
    [name |-> heap[self].name, parent |-> 0]

\* armature.data.edit_bones.new(self.name) and its parent (lines 113-116).
new_editbone(heap, self, parent) ==
    [name |-> heap[self].name,
     parent |-> IF parent # 0 THEN heap[parent].editbone ELSE 0]

\* The calls self makes for its children: child.build_xxx(armature, self).
child_calls(heap, self) ==
    [i \in 1..Len(heap[self].children) |-> <<heap[self].children[i], self>>]

\* A faulty variant of editmode_root_calls: pass 1 is run for the first root only.
editmode_first_root_only(rs) ==
    [i \in 1..(IF Len(rs) > 0 THEN 1 ELSE 0) |-> <<rs[i], 0>>]

\* for root in self.roots: root.build_editmode(ob)
editmode_root_calls(rs) ==
    [i \in 1..Len(rs) |-> <<rs[i], 0>>]

\* for root in self.roots: root.build_objectmode(ob)
objectmode_root_calls(rs) ==
    [i \in 1..Len(rs) |-> <<rs[i], 0>>]

\* ------------------------------------------------------------------- pass 2

\* The host's pose channels of a bone before build_objectmode touches them.
DefaultPoseBone ==
    [lock_location |-> FALSE, lock_rotation |-> FALSE, lock_scale |-> FALSE,
     lock_ik |-> <<FALSE, FALSE, FALSE>>,
     use_ik_limit |-> <<FALSE, FALSE, FALSE>>,
     ik_min |-> <<-180, -180, -180>>,
     ik_max |-> <<180, 180, 180>>]

\* One branch of configure_joint, for axis k (1 = x, 2 = y, 3 = z).
set_ik_limit(posebone, k, limit) ==
    LET p == [posebone EXCEPT !.lock_ik[k] = FALSE, !.use_ik_limit[k] = TRUE]
    IN  IF limit # None
        THEN [p EXCEPT !.ik_max[k] = limit[1].upper, !.ik_min[k] = limit[1].lower]
        ELSE p

RECURSIVE set_ik_limits(_, _, _, _)
set_ik_limits(posebone, axis, limit, k) ==
    IF k > 3 THEN posebone
    ELSE set_ik_limits(IF axis[k] # 0 THEN set_ik_limit(posebone, k, limit) ELSE posebone,
                       axis, limit, k + 1)

\* A faulty variant of configure_joint: every nonzero component is unlocked (if, not elif).
configure_joint_every_axis(axis, limit, posebone) ==
    IF axis = <<>> THEN posebone ELSE set_ik_limits(posebone, axis, limit, 1)

\* configure_joint(posebone) of a joint with this axis and limit.
configure_joint(axis, limit, posebone) ==
    IF axis = <<>> THEN posebone
    ELSE IF axis[1] # 0 THEN set_ik_limit(posebone, 1, limit)
    ELSE IF axis[2] # 0 THEN set_ik_limit(posebone, 2, limit)
    ELSE IF axis[3] # 0 THEN set_ik_limit(posebone, 3, limit)
    ELSE posebone

\* Lines 156-165 of build_objectmode: the locks set before configure_joint.
lock_posebone(has_children, posebone) ==
    LET p == IF has_children
             THEN [posebone EXCEPT !.lock_location = TRUE, !.lock_rotation = TRUE,
                                   !.lock_scale = TRUE]
             ELSE posebone
    IN  [p EXCEPT !.lock_ik = <<TRUE, TRUE, TRUE>>]

\* One call self.build_objectmode(armature, parent), without the calls it makes
\* for its children: the objects self is one of, the pose bones, the scene, the
\* host store, the exception that escapes, and whether the children are visited.
objectmode_call(heap, self, parent, bones, objs, mats, REG) ==
    LET node == heap[self]
    IN  IF node.children = <<>> /\ node.type = FIXED
        THEN IF parent = 0
             THEN [nodes |-> heap, pose_bones |-> bones, objects |-> objs,
                   materials |-> mats, error |-> "", descend |-> FALSE]
             ELSE LET f == add_link_frame(node.link, heap[parent].name, objs, mats, REG)
                  IN  [nodes |-> heap, pose_bones |-> bones, objects |-> f.objects,
                       materials |-> f.materials, error |-> f.error, descend |-> FALSE]
        ELSE IF node.name \notin DOMAIN bones
        \* KeyError: "bone not yet added to the armature"
        THEN [nodes |-> heap, pose_bones |-> bones, objects |-> objs,
              materials |-> mats, error |-> "", descend |-> FALSE]
        ELSE LET posebone == configure_joint(node.axis, node.limit,
                                 lock_posebone(node.children # <<>>, bones[node.name]))
                 f == add_link_frame(node.link, node.name, objs, mats, REG)
             IN  [nodes |-> [heap EXCEPT ![self].posebone = node.name],
                  pose_bones |-> [bones EXCEPT ![node.name] = posebone],
                  objects |-> f.objects, materials |-> f.materials,
                  error |-> f.error, descend |-> f.error = ""]

\* ------------------------------------------------------------- the documents

Link(name, inertial, collision, visual) ==
    [name |-> name, inertial |-> inertial, collision |-> collision, visual |-> visual]

Visual(origin, geometry, material) ==
    [origin |-> origin, geometry |-> geometry, material |-> material]

Material(name, color, texture) ==
    [name |-> name, color |-> color, texture |-> texture]

Joint(name, type, parent, child, axis, limit) ==
    [name |-> name, type |-> type, parent |-> parent, child |-> child,
     axis |-> axis, limit |-> limit]

Red == <<10, 0, 0, 10>>
Blue == <<0, 0, 10, 10>>

RECURSIVE Tuple(_, _)
\* The function f on 1..n as a tuple.
Tuple(f, n) == IF n = 0 THEN <<>> ELSE Append(Tuple(f, n - 1), f[n])

Orders(S) ==
    {o \in [1..Cardinality(S) -> S] : \A i, j \in 1..Cardinality(S) : o[i] = o[j] => i = j}

\* The documents the parser hands over have links 1..n, link 1 the root and every
\* other link the child of exactly one joint, the joints in any document order.
\* BuildDoc: link l is the child of a joint from link up[l], joint i is the one
\* of link order[i] and is fixed or revolute; all links have a box or none has.
BuildDoc(n, up, order, type, vis) ==
    [links |-> Tuple([l \in 1..n |->
                  Link(l, None, None,
                       IF vis THEN Some(Visual(None, "box", None)) ELSE None)], n),
     joints |-> Tuple([i \in 1..(n - 1) |->
                  Joint(i, type[i], up[order[i]], order[i],
                        IF type[i] = FIXED THEN None ELSE <<0, 0, 1>>, None)], n - 1),
     materials |-> <<>>]

Axes == {None} \cup {<<x, y, z>> : x \in {-1, 0, 1}, y \in {-1, 0, 1}, z \in {-1, 0, 1}}
Limits == {None, Some([lower |-> -1, upper |-> 1]), Some([lower |-> 0, upper |-> 2])}

\* JointDoc: a chain of n - 1 joints; the first has any type, axis and limit.
JointDoc(n, type, axis, limit) ==
    [links |-> Tuple([l \in 1..n |-> Link(l, None, None, None)], n),
     joints |-> Tuple([i \in 1..(n - 1) |->
                  IF i = 1 THEN Joint(1, type, 1, 2, axis, limit)
                  ELSE Joint(i, REVOLUTE, i, i + 1, <<0, 1, 1>>, None)], n - 1),
     materials |-> <<>>]

OriginA == [xyz |-> <<1, 0, 0>>, rpy |-> <<1, 0, 0>>]
OriginB == [xyz |-> <<0, 2, 0>>, rpy |-> <<0, 1, 1>>]
Origins == {None, Some(OriginA), Some(OriginB)}
Descriptors == {None} \cup {Some([origin |-> o]) : o \in Origins}
VisualDescriptors == {None} \cup {Some(Visual(o, "box", None)) : o \in Origins}

\* LinkDoc: one joint; the link which has any inertial, collision and visual,
\* each absent, without origin or with one of two origins.
LinkDoc(which, inertial, collision, visual) ==
    [links |-> Tuple([l \in 1..2 |->
                  IF l = which THEN Link(l, inertial, collision, visual)
                  ELSE Link(l, None, None, None)], 2),
     joints |-> << Joint(1, REVOLUTE, 1, 2, <<0, 0, 1>>, None) >>,
     materials |-> <<>>]

\* The visuals of the material documents: no material, a material without name,
\* a reference to a global material, local colours, a local texture without
\* colour, and an empty (no geometry) with a material.
MatVisuals ==
    { Visual(None, "box", None),
      Visual(None, "box", Some(Material("", Red, ""))),
      Visual(None, "box", Some(Material("a", None, ""))),
      Visual(None, "box", Some(Material("a", Red, ""))),
      Visual(None, "box", Some(Material("a", Blue, ""))),
      Visual(None, "box", Some(Material("b", Blue, ""))),
      Visual(None, "box", Some(Material("a", None, "a.png"))),
      Visual(None, "", Some(Material("a", None, ""))) }

GlobalMaterials ==
    { Material("a", Red, ""), Material("a", Blue, ""), Material("a", None, "a.png") }

GlobalDeclarations ==
    {<<>>} \cup {<<g>> : g \in GlobalMaterials}
           \cup {<<g, h>> : g \in GlobalMaterials, h \in GlobalMaterials}

\* MatDoc: a chain of a revolute joint and a last joint whose links carry the
\* visuals v2 and v3, with the global material declarations decls.
MatDoc(v2, v3, last, decls) ==
    [links |-> << Link(1, None, None, None),
                  Link(2, None, None, Some(v2)),
                  Link(3, None, None, Some(v3)) >>,
     joints |-> << Joint(1, REVOLUTE, 1, 2, <<0, 0, 1>>, None),
                   Joint(2, last, 2, 3, None, None) >>,
     materials |-> decls]

\* ------------------------------------------------------------------ actions

Init ==
    /\ pc = "idle"
    /\ imports = 0
    /\ MATERIALS = <<>>
    /\ materials = <<>>
    /\ urdf = [links |-> <<>>, joints |-> <<>>, materials |-> <<>>]
    /\ base_link = None
    /\ nodes = <<>>
    /\ roots = <<>>
    /\ mode = "OBJECT"
    /\ edit_bones = <<>>
    /\ pose_bones = <<>>
    /\ objects = <<>>
    /\ editStack = <<>>
    /\ poseStack = <<>>
    /\ error = ""

\* URDF.__init__ up to the call of build (lines 316-329), on the document doc.
URDF_init(doc) ==
    /\ pc = "idle"
    /\ imports < MaxImports
    /\ imports' = imports + 1
    /\ urdf' = doc
    /\ MATERIALS' = add_materials(MATERIALS, doc.materials)
    /\ base_link' = Some(URDFLink(link_map(doc, get_root(doc))))
    /\ LET w == _walk_urdf(doc, link_map(doc, get_root(doc)), 0, <<>>)
       IN  /\ nodes' = w.heap
           /\ roots' = w.bones
    /\ pc' = "build"
    /\ UNCHANGED <<materials, mode, edit_bones, pose_bones, objects, editStack,
                   poseStack, error>>

\* build, lines 352-363: the armature is added and the host enters edit mode.
build_armature ==
    /\ pc = "build"
    /\ mode' = "EDIT"
    /\ editStack' = editmode_root_calls(roots)
    /\ pc' = "edit"
    /\ UNCHANGED <<imports, MATERIALS, materials, urdf, base_link, nodes, roots,
                   edit_bones, pose_bones, objects, poseStack, error>>

\* One call of build_editmode (lines 113-125); its child calls are queued.
build_editmode ==
    /\ pc = "edit"
    /\ editStack # <<>>
    /\ LET self == Head(editStack)[1]
           parent == Head(editStack)[2]
       IN  /\ edit_bones' = Append(edit_bones, new_editbone(nodes, self, parent))
           /\ nodes' = [nodes EXCEPT ![self].editbone = Len(edit_bones) + 1]
           /\ editStack' = child_calls(nodes, self) \o Tail(editStack)
    /\ UNCHANGED <<pc, imports, MATERIALS, materials, urdf, base_link, roots, mode,
                   pose_bones, objects, poseStack, error>>

\* build, lines 367-374: the base link's visual, then the host enters object
\* mode, where every bone has its pose bone.
build_base_link ==
    /\ pc = "edit"
    /\ editStack = <<>>
    /\ objects' = IF base_link[1].visual # None
                  THEN objects \o [i \in 1..Len(create_objects_by_link(base_link[1])) |->
                           [create_objects_by_link(base_link[1])[i] EXCEPT
                               !.parent_type = "ARMATURE"]]
                  ELSE objects
    /\ mode' = "OBJECT"
    /\ pose_bones' = [b \in {edit_bones[i].name : i \in 1..Len(edit_bones)} |->
                         DefaultPoseBone]
    /\ poseStack' = objectmode_root_calls(roots)
    /\ pc' = IF roots = <<>> THEN "done" ELSE "object"
    /\ UNCHANGED <<imports, MATERIALS, materials, urdf, base_link, nodes, roots,
                   edit_bones, editStack, error>>

\* One call of build_objectmode (lines 129-172); its child calls are queued.  An
\* exception ends the import; the last call to return ends build.
build_objectmode ==
    /\ pc = "object"
    /\ poseStack # <<>>
    /\ LET self == Head(poseStack)[1]
           parent == Head(poseStack)[2]
           r == objectmode_call(nodes, self, parent, pose_bones, objects, materials,
                                MATERIALS)
           rest == IF r.descend THEN child_calls(nodes, self) \o Tail(poseStack)
                   ELSE Tail(poseStack)
       IN  /\ nodes' = r.nodes
           /\ pose_bones' = r.pose_bones
           /\ objects' = r.objects
           /\ materials' = r.materials
           /\ error' = r.error
           /\ poseStack' = rest
           /\ pc' = IF r.error # "" THEN "raised"
                    ELSE IF rest = <<>> THEN "done" ELSE "object"
    /\ UNCHANGED <<imports, MATERIALS, urdf, base_link, roots, mode, edit_bones,
                   editStack>>

\* The constructor returns or its exception reaches the caller; the session goes
\* on without the URDF object.  The registry and the host's materials stay.
URDF_return ==
    /\ pc \in {"done", "raised"}
    /\ pc' = "idle"
    /\ urdf' = [links |-> <<>>, joints |-> <<>>, materials |-> <<>>]
    /\ base_link' = None
    /\ nodes' = <<>>
    /\ roots' = <<>>
    /\ edit_bones' = <<>>
    /\ pose_bones' = <<>>
    /\ objects' = <<>>
    /\ editStack' = <<>>
    /\ poseStack' = <<>>
    /\ error' = ""
    /\ UNCHANGED <<imports, MATERIALS, materials, mode>>

Build ==
    \/ build_armature
    \/ build_editmode
    \/ build_base_link
    \/ build_objectmode
    \/ URDF_return

Next ==
    \/ pc = "idle" /\ \E n \in 1..MaxLinks :
           \E up \in [2..n -> 1..n], order \in Orders(2..n),
              type \in [1..(n - 1) -> {FIXED, REVOLUTE}], vis \in BOOLEAN :
               URDF_init(BuildDoc(n, up, order, type, vis))
    \/ Build
Spec == Init /\ [][Next]_vars

NextJoint ==
    \/ pc = "idle" /\ \E n \in {2, 3}, type \in TYPES, axis \in Axes, limit \in Limits :
           URDF_init(JointDoc(n, type, axis, limit))
    \/ Build
SpecJoint == Init /\ [][NextJoint]_vars

NextLink ==
    \/ pc = "idle" /\ \E which \in 1..2, inertial \in Descriptors, collision \in Descriptors,
          visual \in VisualDescriptors :
           URDF_init(LinkDoc(which, inertial, collision, visual))
    \/ Build
SpecLink == Init /\ [][NextLink]_vars

NextMat ==
    \/ pc = "idle" /\ \E v2 \in MatVisuals, v3 \in MatVisuals, last \in {FIXED, REVOLUTE},
                         decls \in GlobalDeclarations :
           URDF_init(MatDoc(v2, v3, last, decls))
    \/ Build
SpecMat == Init /\ [][NextMat]_vars

\* ------------------------------------------------------- what the claims read

\* The nodes pass 2 has resolved a pose bone for, the objects parented to a bone,
\* and the pose bones whose channels were changed.
PosedNodes == {n \in 1..Len(nodes) : nodes[n].posebone # 0}
BoneObjects == {i \in 1..Len(objects) : objects[i].parent_type = "BONE"}
TouchedBones == {b \in DOMAIN pose_bones : pose_bones[b] # DefaultPoseBone}
AllBonesMade == \A n \in 1..Len(nodes) : nodes[n].editbone # 0

\* The node whose children hold n, 0 for a root.
ParentOf(n) ==
    IF \E m \in 1..Len(nodes) : \E k \in 1..Len(nodes[m].children) : nodes[m].children[k] = n
    THEN CHOOSE m \in 1..Len(nodes) :
             \E k \in 1..Len(nodes[m].children) : nodes[m].children[k] = n
    ELSE 0

RECURSIVE PreOrder(_)
RECURSIVE PreOrderAll(_)
\* The nodes below and including n, and those of a list of nodes, depth first,
\* a node before its children, children in insertion order.
PreOrder(n) == <<n>> \o PreOrderAll(nodes[n].children)
PreOrderAll(ns) == IF ns = <<>> THEN <<>> ELSE PreOrder(Head(ns)) \o PreOrderAll(Tail(ns))

RECURSIVE Reach(_, _)
\* The links reachable from the links S along the joints of doc.
Reach(doc, S) ==
    LET T == S \cup {doc.joints[i].child :
                        i \in {j \in 1..Len(doc.joints) : doc.joints[j].parent \in S}}
    IN  IF T = S THEN S ELSE Reach(doc, T)

\* The joints of doc form one chain from the root, in the order c of their numbers.
ChainIn(doc, c) ==
    /\ doc.joints[c[1]].parent = get_root(doc)
    /\ \A k \in 2..Len(doc.joints) : doc.joints[c[k]].parent = doc.joints[c[k - 1]].child

HasOrigin(d) == d # None /\ d[1].origin # None

\* The link's stored origin is the origin o.
OriginIs(link, o) == link.xyz = o.xyz /\ link.rot = to_quaternion(o.rpy)

\* The first nonzero component of axis in x, y, z order, 0 when there is none.
FirstAxis(axis) ==
    IF axis = None \/ \A k \in 1..3 : axis[k] = 0 THEN 0
    ELSE CHOOSE k \in 1..3 : axis[k] # 0 /\ \A j \in 1..(k - 1) : axis[j] = 0

\* The material of the visual of link l of the document, None when it has none.
MaterialOf(l) ==
    IF urdf.links[l].visual = None THEN None ELSE urdf.links[l].visual[1].material

IsGlobalRef(m) == m # None /\ m[1].name # "" /\ m[1].color = None /\ m[1].texture = ""
IsLocalColor(m) == m # None /\ m[1].name # "" /\ m[1].color # None

\* ------------------------------------------------------------------- claims

\* C1: pass 2 does not begin on any joint before pass 1 has made the bone of
\* every joint of the tree: a step that creates an edit bone is taken in EDIT mode
\* with no pose bone resolved, no channel changed and no object parented to a
\* bone; a step that does any of these is taken in OBJECT mode with every bone made.
C1_PassOrder ==
    [][ /\ Len(edit_bones') > Len(edit_bones) =>
             /\ mode = "EDIT" /\ mode' = "EDIT"
             /\ PosedNodes = {} /\ BoneObjects = {} /\ TouchedBones = {}
        /\ (\/ PosedNodes' \ PosedNodes # {}
            \/ BoneObjects' \ BoneObjects # {}
            \/ TouchedBones' \ TouchedBones # {}) =>
             /\ mode = "OBJECT" /\ mode' = "OBJECT"
             /\ AllBonesMade ]_vars

\* C1's case: both passes have run over a tree of several joints.
C1_Witness ==
    /\ pc = "done" /\ Len(nodes) >= 2
    /\ PosedNodes # {} /\ BoneObjects # {}

\* C2: a document whose N >= 1 joints form one chain from the root link gives N
\* nodes and one root, the nodes in chain order, each the only child of the one
\* before it.
C2_Chain ==
    pc # "idle" =>
        \A c \in Orders(1..Len(urdf.joints)) :
            (Len(urdf.joints) >= 1 /\ ChainIn(urdf, c)) =>
                /\ Len(nodes) = Len(urdf.joints)
                /\ Len(roots) = 1
                /\ ParentOf(roots[1]) = 0
                /\ nodes[roots[1]].name = urdf.joints[c[1]].name
                /\ \A k \in 1..Len(nodes) :
                       \E n \in 1..Len(nodes) :
                           /\ nodes[n].name = urdf.joints[c[k]].name
                           /\ Len(nodes[n].children) = (IF k < Len(nodes) THEN 1 ELSE 0)
                           /\ k < Len(nodes) =>
                                  nodes[nodes[n].children[1]].name = urdf.joints[c[k + 1]].name

\* C2's case: a chain of two joints written in the document in reverse order.
C2_Witness ==
    /\ pc = "build" /\ Len(urdf.joints) >= 2
    /\ \E c \in Orders(1..Len(urdf.joints)) : ChainIn(urdf, c) /\ c[1] # 1

C5_Axis ==
    /\ \A n \in PosedNodes :
           LET p == pose_bones[nodes[n].posebone]
               first == FirstAxis(nodes[n].axis)
           IN  /\ {k \in 1..3 : ~p.lock_ik[k]} = (IF first = 0 THEN {} ELSE {first})
               /\ {k \in 1..3 : p.use_ik_limit[k]} = (IF first = 0 THEN {} ELSE {first})
               /\ (first # 0 /\ nodes[n].limit # None) =>
                      /\ p.ik_min[first] = nodes[n].limit[1].lower
                      /\ p.ik_max[first] = nodes[n].limit[1].upper
    /\ pc = "done" =>
           \A n \in 1..Len(nodes) :
               (nodes[n].children # <<>> \/ nodes[n].type # FIXED) => n \in PosedNodes

\* C5's case: axis (1,1,0) with a limit has been configured.
C5_Witness ==
    \E n \in PosedNodes :
        /\ nodes[n].axis = <<1, 1, 0>>
        /\ nodes[n].limit = Some([lower |-> -1, upper |-> 1])

\* C6: the origin of every link built is the inertial origin when there is one,
\* else the collision origin, else the visual origin, else identity.
C6_Origin ==
    \A link \in {nodes[n].link : n \in 1..Len(nodes)} \cup {base_link[i] : i \in 1..Len(base_link)} :
        /\ HasOrigin(link.inertial) => OriginIs(link, link.inertial[1].origin[1])
        /\ (~HasOrigin(link.inertial) /\ HasOrigin(link.collision)) =>
               OriginIs(link, link.collision[1].origin[1])
        /\ (~HasOrigin(link.inertial) /\ ~HasOrigin(link.collision)
                /\ HasOrigin(link.visual)) =>
               OriginIs(link, link.visual[1].origin[1])
        /\ (~HasOrigin(link.inertial) /\ ~HasOrigin(link.collision)
                /\ ~HasOrigin(link.visual)) =>
               OriginIs(link, [xyz |-> <<0, 0, 0>>, rpy |-> <<0, 0, 0>>])

\* C6's case: a link with three different-valued descriptors, the inertial origin
\* differing from the collision origin.
C6_Witness ==
    \E n \in 1..Len(nodes) :
        /\ HasOrigin(nodes[n].link.inertial) /\ HasOrigin(nodes[n].link.collision)
        /\ HasOrigin(nodes[n].link.visual)
        /\ nodes[n].link.inertial[1].origin # nodes[n].link.collision[1].origin
        /\ nodes[n].link.xyz = nodes[n].link.inertial[1].origin[1].xyz

\* C7: the host's material store never holds two materials made for one name.
C7_OnePerName ==
    \A i, j \in 1..Len(materials) : materials[i].name = materials[j].name => i = j

\* C7's case: two links that refer to the same global material share one handle.
C7_Witness ==
    \E i, j \in 1..Len(objects) :
        /\ objects[i].name # objects[j].name
        /\ IsGlobalRef(MaterialOf(objects[i].name))
        /\ IsGlobalRef(MaterialOf(objects[j].name))
        /\ objects[i].materials # <<>>
        /\ objects[i].materials = objects[j].materials

\* C8: when the import is done, two objects whose links carry local materials of
\* different colours each show their own link's colour.
C8_OwnColor ==
    pc = "done" =>
        \A i, j \in 1..Len(objects) :
            LET mi == MaterialOf(objects[i].name)
                mj == MaterialOf(objects[j].name)
            IN  (/\ objects[i].materials # <<>> /\ objects[j].materials # <<>>
                 /\ IsLocalColor(mi) /\ IsLocalColor(mj)
                 /\ SubSeq(mi[1].color, 1, 3) # SubSeq(mj[1].color, 1, 3)) =>
                    materials[objects[i].materials[1]].diffuse_color
                        = SubSeq(mi[1].color, 1, 3)

\* C9: material resolution never raises: no import ends with an exception.
C9_NeverRaises == pc # "raised" /\ error = ""

\* C10: an entry of MATERIALS is never changed or removed, and MATERIALS changes
\* only in the step that begins an import, before any bone or object is made.
C10_FirstWriter ==
    [][ /\ \A n \in DOMAIN MATERIALS :
               n \in DOMAIN MATERIALS' /\ MATERIALS'[n] = MATERIALS[n]
        /\ MATERIALS' # MATERIALS =>
               /\ pc = "idle" /\ pc' = "build"
               /\ edit_bones' = <<>> /\ objects' = <<>> ]_vars

\* C10's case: a second document declares a registered name with another colour
\* and the entry of the first document stands.
C10_Witness ==
    /\ imports >= 2 /\ pc = "build" /\ Len(urdf.materials) = 1
    /\ urdf.materials[1].name \in DOMAIN MATERIALS
    /\ MATERIALS[urdf.materials[1].name].color # urdf.materials[1].color

====
